---- MODULE Spec2Model ----
(***************************************************************************)
(* OpenAIContentGenerator (packages/core/src/core/openAIContentGenerator.ts)*)
(* as a state machine: the translation of canonical contents to OpenAI chat *)
(* messages, the assembly of canonical responses from completions and       *)
(* stream chunks, and the four public calls of one generator instance.      *)
(*                                                                         *)
(* JavaScript strings are sequences of one-character tokens (<<"H","i">>),  *)
(* so that join, template literals, JSON.stringify and JSON.parse are       *)
(* computed on their characters.  Role names and type tags, which the code  *)
(* only compares with literals, are TLA+ strings.                           *)
(***************************************************************************)
EXTENDS Integers, Sequences, FiniteSets, TLC

VARIABLES
  input,      \* translation harness: the `contents` argument
  turns,      \* translation harness: normalizeContents(input)
  messages,   \* translation harness: convertToOpenAIMessages(turns)
  tphase,     \* translation harness: "input" | "normalized" | "translated" | "threw"
  wireIn,     \* assembly harness: a completion or a stream chunk
  assembled,  \* assembly harness: what the assembler returns for wireIn
  aphase,     \* assembly harness: "input" | "assembled"
  generator,  \* the fields of the OpenAIContentGenerator instance
  calls       \* the calls made on the generator, by call slot

vars == <<input, turns, messages, tphase, wireIn, assembled, aphase, generator, calls>>
translation == <<input, turns, messages, tphase>>
assembly == <<wireIn, assembled, aphase>>

(***************************************************************************)
(* Bounds of the model.                                                    *)
(***************************************************************************)
MaxSize == 3        \* values in one `contents` array: its elements and their parts
MaxToolCalls == 2   \* tool calls in one completion message or stream delta
MaxChunks == 2      \* chunks one upstream stream delivers
MaxCalls == 2       \* call slots of the generator
NRandom == 2        \* distinct values Math.random() returns in the model

(***************************************************************************)
(* JavaScript values.                                                      *)
(***************************************************************************)
\* An optional string: a string, or undefined.
Some(s) == [def |-> TRUE, s |-> s]
NoStr == [def |-> FALSE, s |-> <<>>]

\* x || '' for an optional string x.
OrEmpty(x) == IF x.def /\ x.s # <<>> THEN x.s ELSE <<>>

\* `${x}` for an optional string x.
Interpolate(x) == IF x.def THEN x.s ELSE <<"undefined">>

\* a.join(sep) for an array of strings.
RECURSIVE Join(_, _)
Join(a, sep) ==
  IF a = <<>> THEN <<>>
  ELSE IF Len(a) = 1 THEN a[1]
  ELSE a[1] \o sep \o Join(Tail(a), sep)

(***************************************************************************)
(* JSON values: undefined, a number (one digit), or an object whose        *)
(* members are key/value pairs in insertion order.  Every value has the    *)
(* same three fields, so that values of different kinds compare.           *)
(***************************************************************************)
JUndefined == [t |-> "undefined", n |-> "", kv |-> <<>>]
JNum(d) == [t |-> "num", n |-> d, kv |-> <<>>]
JObj(members) == [t |-> "obj", n |-> "", kv |-> members]
JMember(k, v) == [k |-> k, v |-> v]

Digits == {"0", "1"}
KeyTokens == {"\"a\"", "\"b\""}

\* JavaScript truthiness of a JSON value.
JTruthy(v) == v.t = "obj" \/ (v.t = "num" /\ v.n # "0")

\* The characters JSON.stringify writes for a defined value.
RECURSIVE Serialize(_)
RECURSIVE SerializeMembers(_)
SerializeMembers(kv) ==
  IF kv = <<>> THEN <<>>
  ELSE <<kv[1].k, ":">> \o Serialize(kv[1].v)
       \o (IF Len(kv) > 1 THEN <<",">> ELSE <<>>)
       \o SerializeMembers(Tail(kv))

Serialize(v) ==
  IF v.t = "num" THEN <<v.n>>
  ELSE <<"{">> \o SerializeMembers(v.kv) \o <<"}">>

\* JSON.stringify(v): undefined for undefined, else the serialization.
JSONstringify(v) == IF v.t = "undefined" THEN NoStr ELSE Some(Serialize(v))

\* JSON.parse: a recursive-descent parse of the characters of s from position
\* i.  A result is [ok, val, next]; ok = FALSE is the SyntaxError.
ParseFail == [ok |-> FALSE, val |-> JUndefined, next |-> 0]

RECURSIVE SkipWs(_, _)
SkipWs(s, i) == IF i <= Len(s) /\ s[i] = " " THEN SkipWs(s, i + 1) ELSE i

RECURSIVE ParseValue(_, _)
RECURSIVE ParseMembers(_, _, _)
\* Members after the opening brace or after a comma; acc holds those read.
ParseMembers(s, i, acc) ==
  LET k == SkipWs(s, i) IN
  IF k > Len(s) \/ s[k] \notin KeyTokens THEN ParseFail
  ELSE LET c == SkipWs(s, k + 1) IN
    IF c > Len(s) \/ s[c] # ":" THEN ParseFail
    ELSE LET r == ParseValue(s, c + 1) IN
      IF ~r.ok THEN ParseFail
      ELSE LET e == SkipWs(s, r.next)
               \* a repeated key keeps its first position and takes the last value
               dup == {j \in 1..Len(acc) : acc[j].k = s[k]}
               acc2 == IF dup = {}
                       THEN Append(acc, JMember(s[k], r.val))
                       ELSE [j \in 1..Len(acc) |->
                               IF j \in dup THEN JMember(s[k], r.val) ELSE acc[j]]
           IN
        IF e > Len(s) THEN ParseFail
        ELSE IF s[e] = "}" THEN [ok |-> TRUE, val |-> JObj(acc2), next |-> e + 1]
        ELSE IF s[e] = "," THEN ParseMembers(s, e + 1, acc2)
        ELSE ParseFail

ParseValue(s, i) ==
  LET j == SkipWs(s, i) IN
  IF j > Len(s) THEN ParseFail
  ELSE IF s[j] \in Digits THEN [ok |-> TRUE, val |-> JNum(s[j]), next |-> j + 1]
  ELSE IF s[j] = "{" THEN
    LET k == SkipWs(s, j + 1) IN
    IF k <= Len(s) /\ s[k] = "}"
    THEN [ok |-> TRUE, val |-> JObj(<<>>), next |-> k + 1]
    ELSE ParseMembers(s, j + 1, <<>>)
  ELSE ParseFail

\* JSON.parse(s) = [ok, val]: the whole string must be one value.
JSONparse(s) ==
  LET r == ParseValue(s, 1) IN
  IF r.ok /\ SkipWs(s, r.next) > Len(s)
  THEN [ok |-> TRUE, val |-> r.val]
  ELSE [ok |-> FALSE, val |-> JUndefined]

(***************************************************************************)
(* Contents and parts are duck-typed in the code ('text' in part,          *)
(* typeof part === 'string'), so one record shape stands for every value:  *)
(* ty is its typeof ("null" for null), keys the attributes it has.         *)
(***************************************************************************)
NoFunctionCall == [truthy |-> FALSE, name |-> NoStr, args |-> JUndefined]
NoInlineData == [truthy |-> FALSE, mimeType |-> NoStr, data |-> NoStr]
NoFunctionResponse == [truthy |-> FALSE, name |-> NoStr, response |-> JUndefined]

Obj ==
  [ty |-> "object", str |-> <<>>, keys |-> {}, role |-> "", parts |-> <<>>,
   text |-> NoStr, functionCall |-> NoFunctionCall,
   inlineData |-> NoInlineData, functionResponse |-> NoFunctionResponse]

StringValue(s) == [Obj EXCEPT !.ty = "string", !.str = s]
NullValue == [Obj EXCEPT !.ty = "null"]
TextPart(t) == [Obj EXCEPT !.keys = {"text"}, !.text = t]
FunctionCallPart(name, args) ==
  [Obj EXCEPT !.keys = {"functionCall"},
              !.functionCall = [truthy |-> TRUE, name |-> name, args |-> args]]
InlineDataPart(mimeType, data) ==
  [Obj EXCEPT !.keys = {"inlineData"},
              !.inlineData = [truthy |-> TRUE, mimeType |-> Some(mimeType),
                              data |-> Some(data)]]
FunctionResponsePart(name, response) ==
  [Obj EXCEPT !.keys = {"functionResponse"},
              !.functionResponse =
                 [truthy |-> TRUE, name |-> name, response |-> response]]
Content(role, parts) ==
  [Obj EXCEPT !.keys = {"role", "parts"}, !.role = role, !.parts = parts]
ContentNoParts(role) == [Obj EXCEPT !.keys = {"role"}, !.role = role]

\* The `contents` argument: an array of values, or one value.
ArrayInput(items) == [isArray |-> TRUE, items |-> items, val |-> NullValue]
ValueInput(v) == [isArray |-> FALSE, items |-> <<>>, val |-> v]

(***************************************************************************)
(* normalizeContents (lines 180-195).                                      *)
(***************************************************************************)
\* contents[0] && typeof contents[0] === 'object' && 'role' in contents[0]
HasRoleAttribute(v) == v.ty = "object" /\ "role" \in v.keys

\* normalizeContents with a bare string passed on as a part, unwrapped.
normalizeContents_StringAsPart(contents) ==
  IF contents.isArray
  THEN IF Len(contents.items) = 0 \/ HasRoleAttribute(contents.items[1])
       THEN contents.items
       ELSE <<Content("user", contents.items)>>
  ELSE <<Content("user", <<contents.val>>)>>

normalizeContents(contents) ==
  IF contents.isArray
  THEN IF Len(contents.items) = 0 \/ HasRoleAttribute(contents.items[1])
       THEN contents.items
       ELSE <<Content("user", contents.items)>>
  ELSE IF contents.val.ty = "string"
       THEN <<Content("user", <<TextPart(Some(contents.val.str))>>)>>
       ELSE <<Content("user", <<contents.val>>)>>

(***************************************************************************)
(* Wire messages (OpenAI.Chat.ChatCompletionMessageParam).                 *)
(***************************************************************************)
ContentNull == [kind |-> "null", str |-> <<>>, blocks |-> <<>>]
ContentUndefined == [kind |-> "undefined", str |-> <<>>, blocks |-> <<>>]
ContentString(s) == [kind |-> "string", str |-> s, blocks |-> <<>>]
ContentBlocks(b) == [kind |-> "blocks", str |-> <<>>, blocks |-> b]

TextBlock(s) == [type |-> "text", text |-> s, url |-> <<>>]
ImageBlock(u) == [type |-> "image_url", text |-> <<>>, url |-> u]

NoToolCalls == [def |-> FALSE, calls |-> <<>>]
Message(role, content) ==
  [role |-> role, content |-> content, tool_calls |-> NoToolCalls,
   tool_call_id |-> <<>>]

(***************************************************************************)
(* convertPartsToOpenAI (lines 266-292).                                   *)
(***************************************************************************)
RECURSIVE ContentParts(_)
ContentParts(parts) ==
  IF parts = <<>> THEN <<>>
  ELSE LET part == parts[1]
           block ==
             IF part.ty = "string" THEN <<TextBlock(part.str)>>
             ELSE IF part.ty = "object" THEN
               IF "text" \in part.keys THEN <<TextBlock(OrEmpty(part.text))>>
               ELSE IF "inlineData" \in part.keys /\ part.inlineData.truthy
               THEN <<ImageBlock(<<"data:">> \o Interpolate(part.inlineData.mimeType)
                                 \o <<";base64,">>
                                 \o Interpolate(part.inlineData.data))>>
               ELSE <<>>
             ELSE <<>>
       IN block \o ContentParts(Tail(parts))

\* convertPartsToOpenAI that collapses to a string as soon as some block is a
\* text block (`some` for `every` at line 287).
convertPartsToOpenAI_SomeText(parts) ==
  LET contentParts == ContentParts(parts) IN
  IF \E i \in 1..Len(contentParts) : contentParts[i].type = "text"
  THEN ContentString(Join([i \in 1..Len(contentParts) |-> contentParts[i].text],
                          <<"\n">>))
  ELSE ContentBlocks(contentParts)

convertPartsToOpenAI(parts) ==
  LET contentParts == ContentParts(parts) IN
  IF \A i \in 1..Len(contentParts) : contentParts[i].type = "text"
  THEN ContentString(Join([i \in 1..Len(contentParts) |-> contentParts[i].text],
                          <<"\n">>))
  ELSE ContentBlocks(contentParts)

(***************************************************************************)
(* Call identifiers: `call_${Math.random().toString(36).substr(2, 9)}`     *)
(* (line 225).  Math.random() is a choice among the values r/36,           *)
(* r in 0..NRandom-1, whose base-36 expansions are "0" and "0.r".          *)
(***************************************************************************)
Base36Digits == <<"1", "2", "3", "4", "5", "6", "7", "8", "9", "a", "b", "c">>
RandomValues == 0..(NRandom - 1)

toString36(r) == IF r = 0 THEN <<"0">> ELSE <<"0", ".", Base36Digits[r]>>

\* s.substr(start, length)
substr(s, start, length) ==
  IF start >= Len(s) THEN <<>>
  ELSE SubSeq(s, start + 1, IF start + length < Len(s) THEN start + length ELSE Len(s))

CallId(r) == <<"call_">> \o substr(toString36(r), 2, 9)

ToolCall(id, name, arguments) ==
  [id |-> id, type |-> "function", name |-> name, arguments |-> arguments]

(***************************************************************************)
(* convertToOpenAIMessages (lines 197-264).  rnd is the sequence of values *)
(* Math.random() returns during the call, in the order it is called.       *)
(***************************************************************************)
\* typeof part === 'string', or an object with a text attribute
IsTextPart(part) ==
  part.ty = "string" \/ (part.ty = "object" /\ "text" \in part.keys)
\* an object without text whose functionCall attribute is set
IsFunctionCallPart(part) ==
  /\ part.ty = "object" /\ "text" \notin part.keys
  /\ "functionCall" \in part.keys /\ part.functionCall.truthy
IsFunctionResponsePart(part) ==
  /\ part.ty = "object"
  /\ "functionResponse" \in part.keys /\ part.functionResponse.truthy

RECURSIVE TextPartsOf(_)
TextPartsOf(parts) ==
  IF parts = <<>> THEN <<>>
  ELSE (IF parts[1].ty = "string" THEN <<parts[1].str>>
        ELSE IF IsTextPart(parts[1]) THEN <<OrEmpty(parts[1].text)>>
        ELSE <<>>) \o TextPartsOf(Tail(parts))

RECURSIVE ToolCallsOf(_, _)
ToolCallsOf(parts, rnd) ==
  IF parts = <<>> THEN <<>>
  ELSE IF IsFunctionCallPart(parts[1])
  THEN <<ToolCall(CallId(rnd[1]),
                  OrEmpty(parts[1].functionCall.name),
                  JSONstringify(parts[1].functionCall.args))>>
       \o ToolCallsOf(Tail(parts), Tail(rnd))
  ELSE ToolCallsOf(Tail(parts), rnd)

\* The assistant message of a model turn (lines 207-246).
AssistantMessage(content, rnd) ==
  IF "parts" \notin content.keys
  THEN Message("assistant", ContentNull)
  ELSE LET textParts == TextPartsOf(content.parts)
           toolCalls == ToolCallsOf(content.parts, rnd)
       IN [role |-> "assistant",
           content |-> IF Len(textParts) > 0
                       THEN ContentString(Join(textParts, <<"\n">>))
                       ELSE IF Len(toolCalls) = 0 THEN ContentString(<<>>)
                       ELSE ContentNull,
           tool_calls |-> IF Len(toolCalls) > 0
                          THEN [def |-> TRUE, calls |-> toolCalls]
                          ELSE NoToolCalls,
           tool_call_id |-> <<>>]

\* ToolMessages stopping after the first function response.
ToolMessages_FirstOnly(parts) ==
  LET found == {i \in 1..Len(parts) : IsFunctionResponsePart(parts[i])} IN
  IF found = {} THEN <<>>
  ELSE LET part == parts[CHOOSE i \in found : \A j \in found : i <= j]
           content == JSONstringify(part.functionResponse.response) IN
       <<[role |-> "tool",
          content |-> IF content.def THEN ContentString(content.s)
                      ELSE ContentUndefined,
          tool_calls |-> NoToolCalls,
          tool_call_id |-> OrEmpty(part.functionResponse.name)]>>

\* The tool messages of a function turn (lines 247-259).
RECURSIVE ToolMessages(_)
ToolMessages(parts) ==
  IF parts = <<>> THEN <<>>
  ELSE (IF IsFunctionResponsePart(parts[1])
        THEN LET content == JSONstringify(parts[1].functionResponse.response) IN
             <<[role |-> "tool",
                content |-> IF content.def THEN ContentString(content.s)
                            ELSE ContentUndefined,
                tool_calls |-> NoToolCalls,
                tool_call_id |-> OrEmpty(parts[1].functionResponse.name)]>>
        ELSE <<>>) \o ToolMessages(Tail(parts))

\* How many times one turn calls Math.random().
RandomCalls(content) ==
  IF content.ty = "object" /\ "role" \in content.keys /\ content.role = "model"
     /\ "parts" \in content.keys
  THEN Cardinality({i \in 1..Len(content.parts) : IsFunctionCallPart(content.parts[i])})
  ELSE 0

RECURSIVE TotalRandomCalls(_)
TotalRandomCalls(contents) ==
  IF contents = <<>> THEN 0
  ELSE RandomCalls(contents[1]) + TotalRandomCalls(Tail(contents))

\* The messages one element of `contents` pushes (one pass of the loop at 200).
TurnMessages(content, rnd) ==
  IF content.ty # "object" \/ "role" \notin content.keys THEN <<>>
  ELSE IF content.role = "user"
  THEN <<Message("user",
                 convertPartsToOpenAI(IF "parts" \in content.keys
                                      THEN content.parts ELSE <<>>))>>
  ELSE IF content.role = "model" THEN <<AssistantMessage(content, rnd)>>
  ELSE IF content.role = "function"
  THEN IF "parts" \in content.keys THEN ToolMessages(content.parts) ELSE <<>>
  ELSE <<>>

RECURSIVE MessagesOf(_, _)
MessagesOf(contents, rnd) ==
  IF contents = <<>> THEN <<>>
  ELSE TurnMessages(contents[1], rnd)
       \o MessagesOf(Tail(contents),
                     SubSeq(rnd, RandomCalls(contents[1]) + 1, Len(rnd)))

\* content.role on a null element is a TypeError (line 201).
convertThrows(contents) == \E i \in 1..Len(contents) : contents[i].ty = "null"

convertToOpenAIMessages(contents, rnd) ==
  IF convertThrows(contents)
  THEN [threw |-> TRUE, messages |-> <<>>]
  ELSE [threw |-> FALSE, messages |-> MessagesOf(contents, rnd)]

\* The values Math.random() may return over one convertToOpenAIMessages call.
RandomRuns(contents) ==
  IF convertThrows(contents) THEN {<<>>}
  ELSE [1..TotalRandomCalls(contents) -> RandomValues]

(***************************************************************************)
(* Wire responses.  A completion message and a stream delta have the same  *)
(* shape: an optional content and an optional list of tool calls, each     *)
(* with an optional function of optional name and arguments.               *)
(***************************************************************************)
WireFunction(name, arguments) == [def |-> TRUE, name |-> name, arguments |-> arguments]
NoWireFunction == [def |-> FALSE, name |-> NoStr, arguments |-> NoStr]
WireToolCall(function) == [function |-> function]
WireMessage(content, tool_calls) == [content |-> content, tool_calls |-> tool_calls]
ToolCallList(list) == [def |-> TRUE, calls |-> list]

Usage(p, c, t) ==
  [def |-> TRUE, prompt_tokens |-> p, completion_tokens |-> c, total_tokens |-> t]
NoUsage == [def |-> FALSE, prompt_tokens |-> 0, completion_tokens |-> 0, total_tokens |-> 0]

\* A ChatCompletion: choices[i] = [message]; a ChatCompletionChunk:
\* choices[i] = [delta].
Completion(choices, usage) == [choices |-> choices, usage |-> usage]
Chunk(choices) == [choices |-> choices]

(***************************************************************************)
(* Canonical responses (GenerateContentResponse).                          *)
(***************************************************************************)
UsageMetadata(p, c, t) ==
  [def |-> TRUE, promptTokenCount |-> p, candidatesTokenCount |-> c,
   totalTokenCount |-> t]
NoUsageMetadata ==
  [def |-> FALSE, promptTokenCount |-> 0, candidatesTokenCount |-> 0,
   totalTokenCount |-> 0]

Response(parts, usageMetadata, text) ==
  [parts |-> parts, usageMetadata |-> usageMetadata, text |-> text]
NoResponse == Response(<<>>, NoUsageMetadata, <<>>)

Returned(response) == [threw |-> FALSE, response |-> response]
Thrown == [threw |-> TRUE, response |-> NoResponse]

\* The loops at 340-345 and 402-407: the text of the first part that has a
\* non-empty text attribute, else ''.
RECURSIVE TextContent(_)
TextContent(parts) ==
  IF parts = <<>> THEN <<>>
  ELSE IF parts[1].ty = "object" /\ "text" \in parts[1].keys
          /\ parts[1].text.def /\ parts[1].text.s # <<>>
  THEN parts[1].text.s
  ELSE TextContent(Tail(parts))

(***************************************************************************)
(* convertToGeminiResponse (lines 317-372).                                *)
(***************************************************************************)
\* toolCall.function.arguments || '{}'
ArgumentsOrEmptyObject(arguments) ==
  IF arguments.def /\ arguments.s # <<>> THEN arguments.s ELSE <<"{", "}">>

\* FunctionCallParts with the parse in a try/catch that falls back to {}.
RECURSIVE FunctionCallParts_Lenient(_)
FunctionCallParts_Lenient(tool_calls) ==
  IF tool_calls = <<>> THEN [threw |-> FALSE, parts |-> <<>>]
  ELSE LET toolCall == tool_calls[1] IN
    IF ~toolCall.function.def THEN FunctionCallParts_Lenient(Tail(tool_calls))
    ELSE LET args == JSONparse(ArgumentsOrEmptyObject(toolCall.function.arguments))
             rest == FunctionCallParts_Lenient(Tail(tool_calls))
         IN [threw |-> FALSE,
             parts |-> <<FunctionCallPart(toolCall.function.name,
                                          IF args.ok THEN args.val ELSE JObj(<<>>))>>
                       \o rest.parts]

\* The loop at 326-335; threw when a JSON.parse throws.
RECURSIVE FunctionCallParts(_)
FunctionCallParts(tool_calls) ==
  IF tool_calls = <<>> THEN [threw |-> FALSE, parts |-> <<>>]
  ELSE LET toolCall == tool_calls[1] IN
    IF ~toolCall.function.def THEN FunctionCallParts(Tail(tool_calls))
    ELSE LET args == JSONparse(ArgumentsOrEmptyObject(toolCall.function.arguments))
             rest == FunctionCallParts(Tail(tool_calls))
         IN IF ~args.ok \/ rest.threw THEN [threw |-> TRUE, parts |-> <<>>]
            ELSE [threw |-> FALSE,
                  parts |-> <<FunctionCallPart(toolCall.function.name, args.val)>>
                            \o rest.parts]

\* Lines 319-371 for one choice of the completion.
AssembleChoice(choice, usage) ==
  LET textParts == IF choice.content.def /\ choice.content.s # <<>>
                   THEN <<TextPart(choice.content)>> ELSE <<>>
      callParts == IF choice.tool_calls.def
                   THEN FunctionCallParts(choice.tool_calls.calls)
                   ELSE [threw |-> FALSE, parts |-> <<>>]
      parts == textParts \o callParts.parts
  IN IF callParts.threw THEN Thrown
     ELSE Returned(Response(parts,
            UsageMetadata(IF usage.def THEN usage.prompt_tokens ELSE 0,
                          IF usage.def THEN usage.completion_tokens ELSE 0,
                          IF usage.def THEN usage.total_tokens ELSE 0),
            TextContent(parts)))

\* convertToGeminiResponse reading the last choice instead of the first.
convertToGeminiResponse_LastChoice(completion) ==
  IF completion.choices = <<>> THEN Thrown
  ELSE AssembleChoice(completion.choices[Len(completion.choices)], completion.usage)

\* choice.message of an undefined choice is a TypeError (line 321).
convertToGeminiResponse(completion) ==
  IF completion.choices = <<>> THEN Thrown
  ELSE AssembleChoice(completion.choices[1], completion.usage)

\* DeltaCallParts that parses the argument fragment of every named tool-call
\* delta, whether or not there is one (JSON.parse('') and
\* JSON.parse(undefined) throw).
RECURSIVE DeltaCallParts_ParseAlways(_)
DeltaCallParts_ParseAlways(tool_calls) ==
  IF tool_calls = <<>> THEN [threw |-> FALSE, parts |-> <<>>]
  ELSE LET toolCall == tool_calls[1]
           named == /\ toolCall.function.def /\ toolCall.function.name.def
                    /\ toolCall.function.name.s # <<>>
           arguments == toolCall.function.arguments
           args == IF arguments.def THEN JSONparse(arguments.s)
                   ELSE [ok |-> FALSE, val |-> JUndefined]
       IN IF ~named THEN DeltaCallParts_ParseAlways(Tail(tool_calls))
          ELSE IF ~args.ok THEN [threw |-> TRUE, parts |-> <<>>]
          ELSE LET rest == DeltaCallParts_ParseAlways(Tail(tool_calls)) IN
               IF rest.threw THEN [threw |-> TRUE, parts |-> <<>>]
               ELSE [threw |-> FALSE,
                     parts |-> <<FunctionCallPart(toolCall.function.name, args.val)>>
                               \o rest.parts]

(***************************************************************************)
(* convertStreamChunkToGeminiResponse (lines 374-424).                     *)
(***************************************************************************)
\* The loop at 388-397; threw when a JSON.parse throws.
RECURSIVE DeltaCallParts(_)
DeltaCallParts(tool_calls) ==
  IF tool_calls = <<>> THEN [threw |-> FALSE, parts |-> <<>>]
  ELSE LET toolCall == tool_calls[1]
           named == /\ toolCall.function.def /\ toolCall.function.name.def
                    /\ toolCall.function.name.s # <<>>
           arguments == toolCall.function.arguments
           args == IF arguments.def /\ arguments.s # <<>>
                   THEN JSONparse(arguments.s)
                   ELSE [ok |-> TRUE, val |-> JObj(<<>>)]
       IN IF ~named THEN DeltaCallParts(Tail(tool_calls))
          ELSE IF ~args.ok THEN [threw |-> TRUE, parts |-> <<>>]
          ELSE LET rest == DeltaCallParts(Tail(tool_calls)) IN
               IF rest.threw THEN [threw |-> TRUE, parts |-> <<>>]
               ELSE [threw |-> FALSE,
                     parts |-> <<FunctionCallPart(toolCall.function.name, args.val)>>
                               \o rest.parts]

\* convertStreamChunkToGeminiResponse without the text helper of line 420.
convertStreamChunkToGeminiResponse_NoText(chunk) ==
  IF chunk.choices = <<>> THEN Returned(Response(<<>>, NoUsageMetadata, <<>>))
  ELSE LET delta == chunk.choices[1]
           textParts == IF delta.content.def /\ delta.content.s # <<>>
                        THEN <<TextPart(delta.content)>> ELSE <<>>
           callParts == IF delta.tool_calls.def
                        THEN DeltaCallParts(delta.tool_calls.calls)
                        ELSE [threw |-> FALSE, parts |-> <<>>]
       IN IF callParts.threw THEN Thrown
          ELSE Returned(Response(textParts \o callParts.parts, NoUsageMetadata, <<>>))

convertStreamChunkToGeminiResponse(chunk) ==
  IF chunk.choices = <<>> THEN Returned(Response(<<>>, NoUsageMetadata, <<>>))
  ELSE LET delta == chunk.choices[1]
           textParts == IF delta.content.def /\ delta.content.s # <<>>
                        THEN <<TextPart(delta.content)>> ELSE <<>>
           callParts == IF delta.tool_calls.def
                        THEN DeltaCallParts(delta.tool_calls.calls)
                        ELSE [threw |-> FALSE, parts |-> <<>>]
           parts == textParts \o callParts.parts
       IN IF callParts.threw THEN Thrown
          ELSE Returned(Response(parts, NoUsageMetadata, TextContent(parts)))

(***************************************************************************)
(* Requests.  An absent config ((request as any).config || {}) is a config *)
(* with every field absent.                                                *)
(***************************************************************************)
\* An optional number.
SomeNum(n) == [def |-> TRUE, n |-> n]
NoNum == [def |-> FALSE, n |-> 0]

\* a ?? b for optional numbers.
Coalesce(a, b) == IF a.def THEN a ELSE b

Config(systemInstruction, responseMimeType, responseJsonSchema, sampling) ==
  [systemInstruction |-> systemInstruction,
   responseMimeType |-> responseMimeType,
   responseJsonSchema |-> responseJsonSchema,
   temperature |-> sampling.temperature,
   topP |-> sampling.topP,
   maxOutputTokens |-> sampling.maxOutputTokens]

Sampling(temperature, topP, maxOutputTokens) ==
  [temperature |-> temperature, topP |-> topP, maxOutputTokens |-> maxOutputTokens]
NoSampling == Sampling(NoNum, NoNum, NoNum)

FunctionDeclaration(name, description, parameters) ==
  [name |-> name, description |-> description, parameters |-> parameters]
ToolGroup(functionDeclarations) ==
  [hasDeclarations |-> TRUE, functionDeclarations |-> functionDeclarations]
ToolGroupWithoutDeclarations ==
  [hasDeclarations |-> FALSE, functionDeclarations |-> <<>>]
Tools(groups) == [def |-> TRUE, groups |-> groups]
NoTools == [def |-> FALSE, groups |-> <<>>]

Request(contents, config, generationConfig, tools) ==
  [contents |-> contents, config |-> config,
   generationConfig |-> generationConfig, tools |-> tools]

(***************************************************************************)
(* convertToOpenAITools (lines 294-315).                                   *)
(***************************************************************************)
RECURSIVE convertToOpenAITools(_)
convertToOpenAITools(groups) ==
  IF groups = <<>> THEN <<>>
  ELSE (IF groups[1].hasDeclarations
        THEN [i \in 1..Len(groups[1].functionDeclarations) |->
                LET func == groups[1].functionDeclarations[i] IN
                [type |-> "function", name |-> func.name,
                 description |-> func.description,
                 parameters |-> IF JTruthy(func.parameters)
                                THEN func.parameters ELSE JObj(<<>>)]]
        ELSE <<>>) \o convertToOpenAITools(Tail(groups))

(***************************************************************************)
(* The chat request of generateContent (lines 44-82) and of                *)
(* generateContentStream (lines 91-130), which build it the same way.      *)
(***************************************************************************)
ApplicationJson ==
  <<"a","p","p","l","i","c","a","t","i","o","n","/","j","s","o","n">>

\* config.responseMimeType === 'application/json' && config.responseJsonSchema
JsonMode(config) ==
  /\ config.responseMimeType.def /\ config.responseMimeType.s = ApplicationJson
  /\ JTruthy(config.responseJsonSchema)

\* The instruction of lines 53-56 and 100-103.
SchemaInstruction(config) ==
  Message("system",
    ContentString(<<"You must respond with valid JSON that conforms to this schema: ">>
      \o Interpolate(JSONstringify(config.responseJsonSchema))
      \o <<". Return ONLY the JSON object, no additional text.">>))

\* config.systemInstruction is truthy
HasSystemInstruction(config) ==
  config.systemInstruction.def /\ config.systemInstruction.s # <<>>

\* PrependSystemMessages with the two insertions in the other order.
PrependSystemMessages_SchemaLast(config, msgs) ==
  LET withSystem == IF HasSystemInstruction(config)
                    THEN <<Message("system", ContentString(config.systemInstruction.s))>>
                         \o msgs
                    ELSE msgs
  IN IF JsonMode(config) THEN <<SchemaInstruction(config)>> \o withSystem
     ELSE withSystem

\* Lines 51-70 (and 98-117): the schema instruction is put in front first,
\* the system instruction in front of the result.
PrependSystemMessages(config, msgs) ==
  LET withSchema == IF JsonMode(config)
                    THEN <<SchemaInstruction(config)>> \o msgs
                    ELSE msgs
  IN IF HasSystemInstruction(config)
     THEN <<Message("system", ContentString(config.systemInstruction.s))>>
          \o withSchema
     ELSE withSchema

NoWire ==
  [api |-> "none", model |-> <<>>, messages |-> <<>>, tools |-> <<>>,
   hasTools |-> FALSE, temperature |-> NoNum, top_p |-> NoNum,
   max_tokens |-> NoNum, response_format |-> "undefined", stream |-> FALSE,
   input |-> <<>>]

\* The argument of openai.chat.completions.create (lines 74-82, 121-130).
ChatRequest(model, request, msgs, stream) ==
  LET config == request.config
      legacy == request.generationConfig
      tools == IF request.tools.def
               THEN convertToOpenAITools(request.tools.groups) ELSE <<>>
  IN [api |-> "chat",
      model |-> model,
      messages |-> PrependSystemMessages(config, msgs),
      tools |-> tools,
      hasTools |-> Len(tools) > 0,
      temperature |-> Coalesce(config.temperature,
                               Coalesce(legacy.temperature, SomeNum(0))),
      top_p |-> Coalesce(config.topP, Coalesce(legacy.topP, SomeNum(1))),
      max_tokens |-> Coalesce(config.maxOutputTokens, legacy.maxOutputTokens),
      response_format |-> IF JsonMode(config) THEN "json_object" ELSE "undefined",
      stream |-> stream,
      input |-> <<>>]

(***************************************************************************)
(* countTokens (lines 140-163).  encode is gpt-tokenizer's; the model      *)
(* takes one token per character.                                          *)
(***************************************************************************)
encodeLength(s) == Len(s)

RECURSIVE PartsTokens(_)
PartsTokens(parts) ==
  IF parts = <<>> THEN 0
  ELSE (IF parts[1].ty = "string" THEN encodeLength(parts[1].str)
        ELSE IF parts[1].ty = "object" /\ "text" \in parts[1].keys
                /\ parts[1].text.def /\ parts[1].text.s # <<>>
        THEN encodeLength(parts[1].text.s)
        ELSE 0) + PartsTokens(Tail(parts))

RECURSIVE ContentsTokens(_)
ContentsTokens(contents) ==
  IF contents = <<>> THEN 0
  ELSE (IF "parts" \in contents[1].keys THEN PartsTokens(contents[1].parts) ELSE 0)
       + ContentsTokens(Tail(contents))

\* content.parts on a null element is a TypeError (line 146).
countTokens(contents) ==
  LET normalized == normalizeContents(contents) IN
  IF \E i \in 1..Len(normalized) : normalized[i].ty = "null"
  THEN [threw |-> TRUE, totalTokens |-> 0]
  ELSE [threw |-> FALSE, totalTokens |-> ContentsTokens(normalized)]

(***************************************************************************)
(* extractTextFromContent (lines 426-444); 'parts' in null is a TypeError. *)
(***************************************************************************)
RECURSIVE extractTextFromContent(_)
extractTextFromContent(content) ==
  IF content.ty = "string" THEN [threw |-> FALSE, text |-> content.str]
  ELSE IF content.ty = "null" THEN [threw |-> TRUE, text |-> <<>>]
  ELSE IF "parts" \in content.keys
  THEN LET each == [i \in 1..Len(content.parts) |->
                      extractTextFromContent(content.parts[i])]
           kept == SelectSeq(each, LAMBDA r : r.text # <<>>)
       IN IF \E i \in 1..Len(each) : each[i].threw
          THEN [threw |-> TRUE, text |-> <<>>]
          ELSE [threw |-> FALSE,
                text |-> Join([i \in 1..Len(kept) |-> kept[i].text], <<" ">>)]
  ELSE IF "text" \in content.keys
  THEN [threw |-> FALSE, text |-> OrEmpty(content.text)]
  ELSE [threw |-> FALSE, text |-> <<>>]

\* The text embedContent sends (line 166): request.contents || request.content,
\* with no `content` attribute in the request; an array has neither parts
\* nor text.
EmbeddingText(contents) ==
  IF contents.isArray THEN [threw |-> FALSE, text |-> <<>>]
  ELSE IF contents.val.ty = "null"
          \/ (contents.val.ty = "string" /\ contents.val.str = <<>>)
  THEN [threw |-> TRUE, text |-> <<>>]
  ELSE extractTextFromContent(contents.val)

(***************************************************************************)
(* Inputs of the translation harness: every `contents` array that holds at *)
(* most MaxSize values (its elements and the parts of its turns), and the  *)
(* single values.  An array element is a turn or a bare part.              *)
(***************************************************************************)
Roles == {"user", "model", "function", "system"}

PartSamples ==
  { TextPart(Some(<<"a">>)),
    TextPart(NoStr),
    StringValue(<<"b">>),
    FunctionCallPart(Some(<<"f">>), JObj(<<>>)),
    FunctionCallPart(NoStr, JUndefined),
    FunctionResponsePart(Some(<<"f">>), JObj(<<JMember("\"a\"", JNum("1"))>>)),
    FunctionResponsePart(NoStr, JUndefined),
    InlineDataPart(<<"m">>, <<"d">>),
    NullValue }

\* The array elements that hold k parts: a turn of k parts and, for k = 0,
\* a turn without a parts attribute or a bare part.
ElementsOfSize(k) ==
  {Content(r, ps) : r \in Roles, ps \in [1..k -> PartSamples]}
  \cup (IF k = 0 THEN {ContentNoParts(r) : r \in Roles} \cup PartSamples ELSE {})

\* The values an array holds: its elements and the parts of its turns.
RECURSIVE Size(_)
Size(items) ==
  IF items = <<>> THEN 0
  ELSE 1 + Len(items[1].parts) + Size(Tail(items))

\* The single values passed as `contents`.
ValueSamples ==
  PartSamples \cup {StringValue(<<>>), Obj, Content("model", <<>>), ContentNoParts("user")}

(***************************************************************************)
(* The translation harness: normalizeContents, then                        *)
(* convertToOpenAIMessages, applied to one input (lines 44 and 48).        *)
(***************************************************************************)
NoWireIn == [kind |-> "none", completion |-> Completion(<<>>, NoUsage),
             chunk |-> Chunk(<<>>)]
NoCalls == <<>>
NoGenerator == [model |-> <<>>, embeddingModel |-> <<>>]

InitTranslate ==
  /\ wireIn = NoWireIn /\ assembled = Thrown /\ aphase = "input"
  /\ generator = NoGenerator /\ calls = NoCalls
  /\ input \in {ArrayInput(<<>>)} \cup {ValueInput(v) : v \in ValueSamples}
  /\ turns = <<>>
  /\ messages = <<>>
  /\ tphase = "input"

\* The caller's array grows by one element, within the bounds.
Extend ==
  /\ tphase = "input"
  /\ input.isArray
  /\ \E k \in 0..(MaxSize - Size(input.items) - 1) :
       \E e \in ElementsOfSize(k) :
         input' = ArrayInput(Append(input.items, e))
  /\ UNCHANGED <<turns, messages, tphase, assembly, generator, calls>>

Normalize ==
  /\ tphase = "input"
  /\ turns' = normalizeContents(input)
  /\ tphase' = "normalized"
  /\ UNCHANGED <<input, messages, assembly, generator, calls>>

Translate ==
  /\ tphase = "normalized"
  /\ \E rnd \in RandomRuns(turns) :
       LET r == convertToOpenAIMessages(turns, rnd) IN
         /\ messages' = r.messages
         /\ tphase' = IF r.threw THEN "threw" ELSE "translated"
  /\ UNCHANGED <<input, turns, assembly, generator, calls>>

NextTranslate == Extend \/ Normalize \/ Translate

SpecTranslate == InitTranslate /\ [][NextTranslate]_vars

(***************************************************************************)
(* The assembly harness: convertToGeminiResponse applied to one completion *)
(* (line 84), convertStreamChunkToGeminiResponse to one chunk (line 135).  *)
(***************************************************************************)
ContentSamples == {NoStr, Some(<<>>), Some(<<"H", "i">>)}

WireCallSamples ==
  { WireToolCall(WireFunction(Some(<<"f">>), Some(<<"{", "}">>))),
    WireToolCall(WireFunction(Some(<<"g">>),
                              Some(<<"{", " ", "\"a\"", ":", "1", "}">>))),
    WireToolCall(WireFunction(Some(<<"h">>), Some(<<>>))),
    WireToolCall(WireFunction(Some(<<"i">>), NoStr)),
    WireToolCall(WireFunction(Some(<<"j">>), Some(<<"{", "\"a\"", ":">>))),
    WireToolCall(WireFunction(NoStr, Some(<<"1", "}">>))),
    WireToolCall(NoWireFunction) }

\* Every message or delta with at most MaxToolCalls tool calls.
ToolCallsSamples ==
  {[def |-> FALSE, calls |-> <<>>]}
  \cup UNION {{ToolCallList(l) : l \in [1..n -> WireCallSamples]} : n \in 0..MaxToolCalls}

\* A second choice, which adds a text and a function call if it is read.
OtherChoice ==
  WireMessage(Some(<<"N", "o">>),
              ToolCallList(<<WireToolCall(WireFunction(Some(<<"z">>), Some(<<"0">>)))>>))

UsageSamples == {NoUsage, Usage(3, 4, 7)}

InitAssemble ==
  /\ input = ValueInput(NullValue) /\ turns = <<>> /\ messages = <<>>
  /\ tphase = "input"
  /\ generator = NoGenerator /\ calls = NoCalls
  /\ assembled = Thrown /\ aphase = "input"
  /\ \E content \in ContentSamples, tool_calls \in ToolCallsSamples,
        others \in {<<>>, <<OtherChoice>>}, usage \in UsageSamples,
        empty \in BOOLEAN :
       LET choices == IF empty THEN <<>>
                      ELSE <<WireMessage(content, tool_calls)>> \o others
       IN \/ wireIn = [kind |-> "completion", completion |-> Completion(choices, usage),
                       chunk |-> Chunk(<<>>)]
          \/ wireIn = [kind |-> "chunk", completion |-> Completion(<<>>, NoUsage),
                       chunk |-> Chunk(choices)]

AssembleCompletion ==
  /\ aphase = "input" /\ wireIn.kind = "completion"
  /\ assembled' = convertToGeminiResponse(wireIn.completion)
  /\ aphase' = "assembled"
  /\ UNCHANGED <<wireIn, translation, generator, calls>>

AssembleChunk ==
  /\ aphase = "input" /\ wireIn.kind = "chunk"
  /\ assembled' = convertStreamChunkToGeminiResponse(wireIn.chunk)
  /\ aphase' = "assembled"
  /\ UNCHANGED <<wireIn, translation, generator, calls>>

NextAssemble == AssembleCompletion \/ AssembleChunk

SpecAssemble == InitAssemble /\ [][NextAssemble]_vars

(***************************************************************************)
(* The generator and its calls.  A call slot holds one call from the       *)
(* moment it is made: its request, the values Math.random() returned to    *)
(* it, what it sent to the transport, what the transport answered, and     *)
(* what it gave back to its caller.                                        *)
(*   state: "idle", "awaiting" (the transport call is pending),           *)
(*          "resolved", "rejected", and for a stream "streaming" (the      *)
(*          lazy sequence is open), "ended" (it finished), "failed" (it    *)
(*          threw).                                                        *)
(***************************************************************************)
CallIds == 1..MaxCalls

NoRequest ==
  Request(ValueInput(NullValue), Config(NoStr, NoStr, JUndefined, NoSampling),
          NoSampling, NoTools)

IdleCall ==
  [kind |-> "none", state |-> "idle", request |-> NoRequest, rnd |-> <<>>,
   wire |-> NoWire,
   reply |-> "none",                           \* what create() settled with
   completion |-> Completion(<<>>, NoUsage),   \* reply = "completion"
   data |-> <<>>,                              \* reply = "embedding"
   received |-> <<>>,                          \* chunks the stream delivered
   upstream |-> "none",                        \* "open" | "ended" | "failed"
   response |-> NoResponse, totalTokens |-> 0, values |-> <<>>,
   yielded |-> <<>>,                           \* deltas the sequence yielded
   error |-> "none"]                           \* "TypeError" | "SyntaxError" | "transport"

\* The constructor (lines 26-38), embeddingModel at its default.
Constructed ==
  [model |-> <<"g", "p", "t">>, embeddingModel |-> <<"text-embedding-3-small">>]

Init ==
  /\ input = ValueInput(NullValue) /\ turns = <<>> /\ messages = <<>>
  /\ tphase = "input"
  /\ wireIn = NoWireIn /\ assembled = Thrown /\ aphase = "input"
  /\ generator = Constructed
  /\ calls = [c \in CallIds |-> IdleCall]

\* generateContent (lines 40-85) and generateContentStream (lines 87-131) up
\* to the transport call: a TypeError of the translation rejects the call
\* before anything is sent.
MakeChatCall(call, kind, request, rnd) ==
  LET contents == normalizeContents(request.contents)
      converted == convertToOpenAIMessages(contents, rnd)
  IN IF converted.threw
     THEN [call EXCEPT !.kind = kind, !.request = request,
                       !.state = "rejected", !.error = "TypeError"]
     ELSE [call EXCEPT !.kind = kind, !.request = request, !.rnd = rnd,
                       !.state = "awaiting",
                       !.wire = ChatRequest(generator.model, request,
                                            converted.messages,
                                            kind = "generateContentStream")]

generateContent(c, requests) ==
  /\ calls[c].state = "idle"
  /\ \E request \in requests :
       \E rnd \in RandomRuns(normalizeContents(request.contents)) :
         calls' = [calls EXCEPT ![c] =
                     MakeChatCall(@, "generateContent", request, rnd)]
  /\ UNCHANGED <<generator, translation, assembly>>

generateContentStream(c, requests) ==
  /\ calls[c].state = "idle"
  /\ \E request \in requests :
       \E rnd \in RandomRuns(normalizeContents(request.contents)) :
         calls' = [calls EXCEPT ![c] =
                     MakeChatCall(@, "generateContentStream", request, rnd)]
  /\ UNCHANGED <<generator, translation, assembly>>

\* AfterCompletion with the usage counts added to those of the calls that
\* resolved before, as a counter kept on the generator would.
AfterCompletion_SharedUsage(call, completion) ==
  LET converted == convertToGeminiResponse(completion)
      before == {d \in CallIds : calls[d].state = "resolved"
                                 /\ calls[d].kind = "generateContent"}
      response == converted.response
  IN IF converted.threw
     THEN [call EXCEPT !.reply = "completion", !.completion = completion,
                       !.state = "rejected", !.error = "SyntaxError"]
     ELSE [call EXCEPT !.reply = "completion", !.completion = completion,
                       !.state = "resolved",
                       !.response =
                          [response EXCEPT !.usageMetadata.totalTokenCount =
                                             @ + Cardinality(before)]]

\* Line 84: the completion is converted; a throw rejects the call.
AfterCompletion(call, completion) ==
  LET converted == convertToGeminiResponse(completion) IN
  IF converted.threw
  THEN [call EXCEPT !.reply = "completion", !.completion = completion,
                    !.state = "rejected",
                    !.error = IF completion.choices = <<>>
                              THEN "TypeError" ELSE "SyntaxError"]
  ELSE [call EXCEPT !.reply = "completion", !.completion = completion,
                    !.state = "resolved", !.response = converted.response]

\* The await of line 74 resumes with a completion.
CompletionArrives(c, completions) ==
  /\ calls[c].state = "awaiting" /\ calls[c].kind = "generateContent"
  /\ \E completion \in completions :
       calls' = [calls EXCEPT ![c] = AfterCompletion(@, completion)]
  /\ UNCHANGED <<generator, translation, assembly>>

\* The transport call of line 74, 121 or 168 rejects; the call rejects.
TransportRejects(c) ==
  /\ calls[c].state = "awaiting"
  /\ calls' = [calls EXCEPT ![c].reply = "error", ![c].state = "rejected",
                            ![c].error = "transport"]
  /\ UNCHANGED <<generator, translation, assembly>>

\* The await of line 121 resumes with a stream; the call returns the lazy
\* sequence of lines 133-137, which has not run yet.
StreamOpens(c) ==
  /\ calls[c].state = "awaiting" /\ calls[c].kind = "generateContentStream"
  /\ calls' = [calls EXCEPT ![c].reply = "stream", ![c].state = "streaming",
                            ![c].upstream = "open"]
  /\ UNCHANGED <<generator, translation, assembly>>

\* AfterChunk for a sequence that keeps the text yielded so far and puts it
\* in front of each delta's text.
AfterChunk_Accumulated(call, chunk) ==
  LET converted == convertStreamChunkToGeminiResponse(chunk)
      sofar == IF call.yielded = <<>> THEN <<>>
               ELSE call.yielded[Len(call.yielded)].text
  IN IF converted.threw
     THEN [call EXCEPT !.received = Append(@, chunk),
                       !.state = "failed", !.error = "SyntaxError"]
     ELSE [call EXCEPT !.received = Append(@, chunk),
                       !.yielded = Append(@, [converted.response EXCEPT
                                                !.text = sofar \o @])]

\* One pass of the loop of lines 134-136: the chunk is converted and
\* yielded; a throw of the conversion ends the sequence with that error.
AfterChunk(call, chunk) ==
  LET converted == convertStreamChunkToGeminiResponse(chunk) IN
  IF converted.threw
  THEN [call EXCEPT !.received = Append(@, chunk),
                    !.state = "failed", !.error = "SyntaxError"]
  ELSE [call EXCEPT !.received = Append(@, chunk),
                    !.yielded = Append(@, converted.response)]

\* The consumer asks for the next delta and the stream delivers a chunk.
ChunkArrives(c, chunks) ==
  /\ calls[c].state = "streaming"
  /\ Len(calls[c].received) < MaxChunks
  /\ \E chunk \in chunks :
       calls' = [calls EXCEPT ![c] = AfterChunk(@, chunk)]
  /\ UNCHANGED <<generator, translation, assembly>>

\* The stream is exhausted, or was aborted or closed and ends: the loop of
\* line 134 exits and the sequence is done.
StreamEnds(c) ==
  /\ calls[c].state = "streaming"
  /\ calls' = [calls EXCEPT ![c].state = "ended", ![c].upstream = "ended"]
  /\ UNCHANGED <<generator, translation, assembly>>

\* The stream throws (the connection failed): the sequence throws.
StreamFails(c) ==
  /\ calls[c].state = "streaming"
  /\ calls' = [calls EXCEPT ![c].state = "failed", ![c].upstream = "failed",
                            ![c].error = "transport"]
  /\ UNCHANGED <<generator, translation, assembly>>

\* countTokens (lines 140-163): no transport call.
countTokensCall(c, requests) ==
  /\ calls[c].state = "idle"
  /\ \E request \in requests :
     LET counted == countTokens(request.contents) IN
     calls' = [calls EXCEPT ![c] =
                 IF counted.threw
                 THEN [@ EXCEPT !.kind = "countTokens", !.request = request,
                                !.state = "rejected", !.error = "TypeError"]
                 ELSE [@ EXCEPT !.kind = "countTokens", !.request = request,
                                !.state = "resolved",
                                !.totalTokens = counted.totalTokens]]
  /\ UNCHANGED <<generator, translation, assembly>>

\* embedContent (lines 165-171) up to the transport call.
embedContent(c, requests) ==
  /\ calls[c].state = "idle"
  /\ \E request \in requests :
     LET extracted == EmbeddingText(request.contents) IN
     calls' = [calls EXCEPT ![c] =
                 IF extracted.threw
                 THEN [@ EXCEPT !.kind = "embedContent", !.request = request,
                                !.state = "rejected", !.error = "TypeError"]
                 ELSE [@ EXCEPT !.kind = "embedContent", !.request = request,
                                !.state = "awaiting",
                                !.wire = [NoWire EXCEPT
                                            !.api = "embeddings",
                                            !.model = generator.embeddingModel,
                                            !.input = extracted.text]]]
  /\ UNCHANGED <<generator, translation, assembly>>

\* The await of line 168 resumes; response.data[0].embedding (line 175) of an
\* empty data is a TypeError.
EmbeddingArrives(c, replies) ==
  /\ calls[c].state = "awaiting" /\ calls[c].kind = "embedContent"
  /\ \E data \in replies :
     calls' = [calls EXCEPT ![c] =
                 IF data = <<>>
                 THEN [@ EXCEPT !.reply = "embedding", !.data = data,
                                !.state = "rejected", !.error = "TypeError"]
                 ELSE [@ EXCEPT !.reply = "embedding", !.data = data,
                                !.state = "resolved", !.values = data[1]]]
  /\ UNCHANGED <<generator, translation, assembly>>

(***************************************************************************)
(* One call at a time, over every request and every answer of the          *)
(* transport in the sample sets.                                           *)
(***************************************************************************)
CallContents ==
  { ValueInput(StringValue(<<"H", "i">>)),
    ArrayInput(<<Content("user", <<TextPart(Some(<<"a">>))>>),
                 Content("model", <<FunctionCallPart(Some(<<"f">>), JObj(<<>>))>>)>>),
    ArrayInput(<<Content("user", <<>>), NullValue>>) }

SystemInstructionSamples == {NoStr, Some(<<>>), Some(<<"S">>)}
MimeTypeSamples == {NoStr, Some(ApplicationJson), Some(<<"text/plain">>)}
SchemaSamples == {JUndefined, JNum("0"), JObj(<<JMember("\"a\"", JNum("1"))>>)}

\* The rest of a request: sampling fields of the config, the legacy
\* generationConfig, the tools.
RestSamples ==
  { [sampling |-> NoSampling, generationConfig |-> NoSampling, tools |-> NoTools],
    [sampling |-> Sampling(SomeNum(7), NoNum, NoNum),
     generationConfig |-> Sampling(SomeNum(3), SomeNum(9), SomeNum(5)),
     tools |-> Tools(<<ToolGroup(<<FunctionDeclaration(<<"f">>, <<"d">>, JUndefined)>>),
                       ToolGroupWithoutDeclarations>>)] }

RequestSamples ==
  { Request(contents, Config(si, mt, schema, rest.sampling),
            rest.generationConfig, rest.tools) :
      contents \in CallContents, si \in SystemInstructionSamples,
      mt \in MimeTypeSamples, schema \in SchemaSamples, rest \in RestSamples }

\* Requests of countTokens and embedContent, which read the contents only.
ContentsRequests ==
  { Request(contents, Config(NoStr, NoStr, JUndefined, NoSampling),
            NoSampling, NoTools) :
      contents \in CallContents
                   \cup {ValueInput(StringValue(<<>>)),
                         ValueInput(Content("user", <<TextPart(Some(<<"a">>)),
                                                      TextPart(Some(<<>>)),
                                                      StringValue(<<"b">>)>>))} }

CallToolCallSamples ==
  { WireToolCall(WireFunction(Some(<<"f">>), Some(<<"{", "}">>))),
    WireToolCall(WireFunction(Some(<<"h">>), Some(<<>>))),
    WireToolCall(WireFunction(Some(<<"j">>), Some(<<"{", "\"a\"", ":">>))),
    WireToolCall(NoWireFunction) }

CallMessageSamples ==
  { WireMessage(content, tool_calls) :
      content \in {NoStr, Some(<<"H", "i">>)},
      tool_calls \in {[def |-> FALSE, calls |-> <<>>]}
                     \cup UNION {{ToolCallList(l) : l \in [1..n -> CallToolCallSamples]}
                                 : n \in 1..MaxToolCalls} }

CompletionSamples ==
  {Completion(<<>>, NoUsage)}
  \cup {Completion(<<m>>, Usage(3, 4, 7)) : m \in CallMessageSamples}

ChunkSamples ==
  { Chunk(<<>>),
    Chunk(<<WireMessage(Some(<<"H", "i">>), NoToolCalls)>>),
    Chunk(<<WireMessage(NoStr, ToolCallList(
              <<WireToolCall(WireFunction(Some(<<"f">>), Some(<<"{", "}">>)))>>))>>),
    Chunk(<<WireMessage(NoStr, ToolCallList(
              <<WireToolCall(WireFunction(Some(<<"j">>), Some(<<"{", "\"a\"", ":">>)))>>))>>) }

EmbeddingDataSamples == {<<>>, <<<<1, 2>>>>}

\* No other call has been made: the caller makes one call and follows it.
Alone(c) == \A d \in CallIds \ {c} : calls[d].state = "idle"

Next ==
  \/ \E c \in CallIds : Alone(c) /\ generateContent(c, RequestSamples)
  \/ \E c \in CallIds : Alone(c) /\ generateContentStream(c, RequestSamples)
  \/ \E c \in CallIds : Alone(c) /\ countTokensCall(c, ContentsRequests)
  \/ \E c \in CallIds : Alone(c) /\ embedContent(c, ContentsRequests)
  \/ \E c \in CallIds : CompletionArrives(c, CompletionSamples)
  \/ \E c \in CallIds : TransportRejects(c)
  \/ \E c \in CallIds : StreamOpens(c)
  \/ \E c \in CallIds : ChunkArrives(c, ChunkSamples)
  \/ \E c \in CallIds : StreamEnds(c)
  \/ \E c \in CallIds : StreamFails(c)
  \/ \E c \in CallIds : EmbeddingArrives(c, EmbeddingDataSamples)

Spec == Init /\ [][Next]_vars

(***************************************************************************)
(* Calls made while others are pending, in every interleaving, over a      *)
(* few requests and answers.                                               *)
(***************************************************************************)
PlainRequest(contents) ==
  Request(contents, Config(NoStr, NoStr, JUndefined, NoSampling), NoSampling, NoTools)

ConcurrentRequests ==
  { PlainRequest(ValueInput(StringValue(<<"H", "i">>))),
    PlainRequest(ArrayInput(<<Content("user", <<>>), NullValue>>)) }

ConcurrentCompletions ==
  { Completion(<<WireMessage(Some(<<"H", "i">>), NoToolCalls)>>, Usage(3, 4, 7)),
    Completion(<<WireMessage(NoStr, ToolCallList(
                   <<WireToolCall(WireFunction(Some(<<"j">>),
                                               Some(<<"{", "\"a\"", ":">>)))>>))>>,
               NoUsage) }

ConcurrentChunks ==
  { Chunk(<<WireMessage(Some(<<"H", "i">>), NoToolCalls)>>),
    Chunk(<<WireMessage(NoStr, ToolCallList(
              <<WireToolCall(WireFunction(Some(<<"j">>), Some(<<"{", "\"a\"", ":">>)))>>))>>) }

NextConcurrent ==
  \/ \E c \in CallIds : generateContent(c, ConcurrentRequests)
  \/ \E c \in CallIds : generateContentStream(c, ConcurrentRequests)
  \/ \E c \in CallIds : countTokensCall(c, ConcurrentRequests)
  \/ \E c \in CallIds : embedContent(c, ConcurrentRequests)
  \/ \E c \in CallIds : CompletionArrives(c, ConcurrentCompletions)
  \/ \E c \in CallIds : TransportRejects(c)
  \/ \E c \in CallIds : StreamOpens(c)
  \/ \E c \in CallIds : ChunkArrives(c, ConcurrentChunks)
  \/ \E c \in CallIds : StreamEnds(c)
  \/ \E c \in CallIds : StreamFails(c)
  \/ \E c \in CallIds : EmbeddingArrives(c, EmbeddingDataSamples)

SpecConcurrent == Init /\ [][NextConcurrent]_vars

(***************************************************************************)
(* Claims on the translation harness.                                      *)
(***************************************************************************)
HasRole(v, role) == "role" \in v.keys /\ v.role = role
PartsOf(turn) == IF "parts" \in turn.keys THEN turn.parts ELSE <<>>
ModelTurns == SelectSeq(turns, LAMBDA t : HasRole(t, "model"))
Assistants == SelectSeq(messages, LAMBDA m : m.role = "assistant")

\* The text a text part carries (nothing when its text is absent).
PartText(part) ==
  IF part.ty = "string" THEN part.str
  ELSE IF part.text.def THEN part.text.s ELSE <<>>

RECURSIVE NewlineJoined(_)
NewlineJoined(texts) ==
  IF Len(texts) = 0 THEN <<>>
  ELSE IF Len(texts) = 1 THEN texts[1]
  ELSE NewlineJoined(SubSeq(texts, 1, Len(texts) - 1)) \o <<"\n">> \o texts[Len(texts)]

\* C7 as stated: normalizeContents maps a string s to one user turn with the
\* Text part s, returns a non-empty array whose first element has a role
\* attribute unchanged, wraps every other array, the empty one included, as
\* the parts of one user turn, and wraps any other value as the sole part of
\* one user turn.
C7_AsStated ==
  tphase # "input" =>
    turns = IF input.isArray
            THEN IF input.items # <<>> /\ "role" \in input.items[1].keys
                 THEN input.items
                 ELSE <<Content("user", input.items)>>
            ELSE IF input.val.ty = "string"
                 THEN <<Content("user", <<TextPart(Some(input.val.str))>>)>>
                 ELSE <<Content("user", <<input.val>>)>>

\* C7 amended: as C7, except that the empty array is returned unchanged (no
\* turn at all); only a non-empty array whose first element has no role
\* attribute is wrapped as the parts of one user turn.
C7_Normalizer ==
  tphase # "input" =>
    turns = IF input.isArray
            THEN IF input.items = <<>> THEN <<>>
                 ELSE IF "role" \in input.items[1].keys THEN input.items
                 ELSE <<Content("user", input.items)>>
            ELSE IF input.val.ty = "string"
                 THEN <<Content("user", <<TextPart(Some(input.val.str))>>)>>
                 ELSE <<Content("user", <<input.val>>)>>

C7_Witness ==
  /\ tphase = "normalized"
  /\ ~input.isArray /\ input.val.ty = "string" /\ input.val.str # <<>>
  /\ Len(turns) = 1 /\ turns[1].parts[1].ty = "object"

\* C2 as stated: the model turns translate, in order, to the assistant
\* messages, one each, and the content of each is the newline-joined text of
\* the turn's text parts if it has one, null if it has function calls and no
\* text part, and the empty string if it has neither.
C2_AssistantContent ==
  tphase = "translated" =>
    /\ Len(Assistants) = Len(ModelTurns)
    /\ \A i \in 1..Len(ModelTurns) :
         LET parts == PartsOf(ModelTurns[i])
             texts == SelectSeq(parts, IsTextPart)
             fcalls == SelectSeq(parts, IsFunctionCallPart)
         IN Assistants[i].content =
              IF Len(texts) > 0
              THEN ContentString(NewlineJoined([k \in 1..Len(texts) |-> PartText(texts[k])]))
              ELSE IF Len(fcalls) > 0 THEN ContentNull
              ELSE ContentString(<<>>)

\* C3 as stated: a model turn whose parts are all function calls translates
\* to an assistant message with one tool call per part, in part order, and
\* the identifiers of these tool calls are pairwise distinct.
C3_DistinctCallIds ==
  tphase = "translated" /\ Len(Assistants) = Len(ModelTurns) =>
    \A i \in 1..Len(ModelTurns) :
      LET parts == PartsOf(ModelTurns[i])
          made == Assistants[i].tool_calls.calls
      IN (Len(parts) > 0 /\ \A k \in 1..Len(parts) : IsFunctionCallPart(parts[k])) =>
           /\ Assistants[i].tool_calls.def
           /\ Len(made) = Len(parts)
           /\ \A k \in 1..Len(parts) :
                /\ made[k].name = OrEmpty(parts[k].functionCall.name)
                /\ made[k].arguments = JSONstringify(parts[k].functionCall.args)
           /\ \A j, k \in 1..Len(made) : j # k => made[j].id # made[k].id

\* The messages C10 gives one turn: one for a user or a model turn, one per
\* function response for a function turn, none for any other element.
ClaimedCount(turn) ==
  IF HasRole(turn, "user") \/ HasRole(turn, "model") THEN 1
  ELSE IF HasRole(turn, "function")
  THEN Len(SelectSeq(PartsOf(turn), IsFunctionResponsePart))
  ELSE 0

RECURSIVE ClaimedTotal(_)
ClaimedTotal(ts) ==
  IF ts = <<>> THEN 0 ELSE ClaimedCount(ts[1]) + ClaimedTotal(Tail(ts))

\* C10: the message list is the concatenation, in turn order, of each turn's
\* messages; a function turn gives one tool message per function response
\* part, in part order, whose content is the JSON serialization of the
\* response and whose tool_call_id is the response's name (the empty string
\* when the name is absent); an element whose role is none of user, model,
\* function gives no message.
C10_ToolMessages ==
  tphase = "translated" =>
    /\ Len(messages) = ClaimedTotal(turns)
    /\ \A i \in 1..Len(turns) :
         LET at == ClaimedTotal(SubSeq(turns, 1, i - 1))
             responses == SelectSeq(PartsOf(turns[i]), IsFunctionResponsePart)
         IN /\ HasRole(turns[i], "user") => messages[at + 1].role = "user"
            /\ HasRole(turns[i], "model") => messages[at + 1].role = "assistant"
            /\ HasRole(turns[i], "function") =>
                 \A k \in 1..Len(responses) :
                   LET fr == responses[k].functionResponse
                       m == messages[at + k]
                   IN /\ m.role = "tool"
                      /\ m.content = IF fr.response.t = "undefined"
                                     THEN ContentUndefined
                                     ELSE ContentString(Serialize(fr.response))
                      /\ m.tool_call_id = (IF fr.name.def THEN fr.name.s ELSE <<>>)

C10_Witness ==
  /\ tphase = "translated"
  /\ Len(turns) = 1 /\ HasRole(turns[1], "function")
  /\ Len(messages) = 2
  /\ messages[1].tool_call_id = <<>> /\ messages[2].tool_call_id = <<"f">>

(***************************************************************************)
(* Claims on the assembly harness.                                         *)
(***************************************************************************)
\* The tool calls of a message that are of type function, in order.
FunctionCallsOf(message) ==
  IF message.tool_calls.def
  THEN SelectSeq(message.tool_calls.calls, LAMBDA tc : tc.function.def)
  ELSE <<>>

\* A response's parts are a Text part for each text in texts, then one
\* FunctionCall part per tool call in fcs, in order, and nothing else.
PartsAre(parts, texts, fcs) ==
  /\ Len(parts) = Len(texts) + Len(fcs)
  /\ \A k \in 1..Len(texts) : parts[k] = TextPart(Some(texts[k]))
  /\ \A k \in 1..Len(fcs) :
       LET part == parts[Len(texts) + k] IN
       /\ part.keys = {"functionCall"}
       /\ part.functionCall.name = fcs[k].function.name
       /\ part.functionCall.args =
            JSONparse(ArgumentsOrEmptyObject(fcs[k].function.arguments)).val

\* C8 as stated: the parts of an assembled completion are one Text part with
\* the first choice's content whenever that content is non-null, then one
\* FunctionCall part per function-type tool call of the first choice, in
\* order, and no other part.
C8_AsStated ==
  (aphase = "assembled" /\ wireIn.kind = "completion" /\ ~assembled.threw) =>
    LET message == wireIn.completion.choices[1] IN
    PartsAre(assembled.response.parts,
             IF message.content.def THEN <<message.content.s>> ELSE <<>>,
             FunctionCallsOf(message))

\* C8 amended: the Text part is emitted whenever the first choice's content
\* is non-null and not the empty string; the rest as stated.
C8_ResponseParts ==
  (aphase = "assembled" /\ wireIn.kind = "completion" /\ ~assembled.threw) =>
    LET message == wireIn.completion.choices[1] IN
    PartsAre(assembled.response.parts,
             IF message.content.def /\ message.content.s # <<>>
             THEN <<message.content.s>> ELSE <<>>,
             FunctionCallsOf(message))

C8_Witness ==
  /\ aphase = "assembled" /\ wireIn.kind = "completion" /\ ~assembled.threw
  /\ Len(wireIn.completion.choices) = 2
  /\ Len(assembled.response.parts) = 3
  /\ assembled.response.parts[1] = TextPart(Some(<<"H", "i">>))
  /\ assembled.response.parts[2].functionCall.name = Some(<<"g">>)
  /\ assembled.response.parts[3].functionCall.name = Some(<<"f">>)

\* C9: the text of every response the two assemblers produce is the value of
\* the first Text part among its parts, and the empty string when its parts
\* hold no Text part.
C9_TextField ==
  (aphase = "assembled" /\ ~assembled.threw) =>
    LET parts == assembled.response.parts
        textAt == {k \in 1..Len(parts) : "text" \in parts[k].keys}
    IN assembled.response.text =
         IF textAt = {} THEN <<>>
         ELSE parts[CHOOSE k \in textAt : \A j \in textAt : k <= j].text.s

C9_Witness ==
  /\ aphase = "assembled" /\ wireIn.kind = "chunk" /\ ~assembled.threw
  /\ Len(assembled.response.parts) = 2
  /\ "functionCall" \in assembled.response.parts[2].keys
  /\ assembled.response.text = <<"H", "i">>

(***************************************************************************)
(* Claims on the calls of the generator.                                   *)
(***************************************************************************)
\* A config string is set: it is there and is not the empty string, which
\* the code's `if (config.systemInstruction)` takes as not set.
IsSet(x) == x.def /\ x.s # <<>>
\* A schema is set: it is there and is not a falsy value.
SchemaIsSet(schema) == schema.t = "obj" \/ (schema.t = "num" /\ schema.n # "0")

\* C1: the messages of every chat request are the system instruction
\* message if config.systemInstruction is set, then the JSON-schema
\* instruction message if config.responseMimeType is "application/json" and
\* config.responseJsonSchema is set, then the translated turns in their
\* order; and the response format is JSON-object mode exactly when the
\* JSON-schema message is there.
C1_MessageOrder ==
  \A c \in CallIds :
    calls[c].wire.api = "chat" =>
      LET config == calls[c].request.config
          json == /\ config.responseMimeType = Some(ApplicationJson)
                  /\ SchemaIsSet(config.responseJsonSchema)
          translated ==
            convertToOpenAIMessages(normalizeContents(calls[c].request.contents),
                                    calls[c].rnd).messages
          system == [role |-> "system",
                     content |-> ContentString(config.systemInstruction.s),
                     tool_calls |-> NoToolCalls, tool_call_id |-> <<>>]
          schema == [role |-> "system",
                     content |-> ContentString(
                        <<"You must respond with valid JSON that conforms to this schema: ">>
                        \o Serialize(config.responseJsonSchema)
                        \o <<". Return ONLY the JSON object, no additional text.">>),
                     tool_calls |-> NoToolCalls, tool_call_id |-> <<>>]
      IN /\ calls[c].wire.messages =
              (IF IsSet(config.systemInstruction) THEN <<system>> ELSE <<>>)
              \o (IF json THEN <<schema>> ELSE <<>>)
              \o translated
         /\ (calls[c].wire.response_format = "json_object") <=> json

C1_Witness ==
  \E c \in CallIds :
    /\ calls[c].kind = "generateContentStream" /\ calls[c].state = "awaiting"
    /\ Len(calls[c].wire.messages) = 4
    /\ calls[c].wire.messages[1].content = ContentString(<<"S">>)
    /\ calls[c].wire.messages[2].role = "system"
    /\ calls[c].wire.messages[4].role = "assistant"
    /\ calls[c].wire.response_format = "json_object"

\* The deltas a stream call has yielded are the conversions of the first
\* chunks it received, one per chunk, in chunk order.
YieldedPrefix(call) ==
  /\ Len(call.yielded) <= Len(call.received)
  /\ \A k \in 1..Len(call.yielded) :
       call.yielded[k] = convertStreamChunkToGeminiResponse(call.received[k]).response

\* C4 as stated: at every moment the deltas yielded are the conversions of
\* the chunks received so far, exactly one per chunk, in chunk order.
C4_AsStated ==
  \A c \in CallIds :
    calls[c].kind = "generateContentStream" =>
      YieldedPrefix(calls[c]) /\ Len(calls[c].yielded) = Len(calls[c].received)

\* One step of a stream call, from old to new.
C4_Step(old, new) ==
  new.kind = "generateContentStream" =>
    /\ YieldedPrefix(new)
    /\ \/ Len(new.yielded) = Len(new.received)
       \/ /\ new.state = "failed" /\ new.error = "SyntaxError"
          /\ Len(new.yielded) = Len(new.received) - 1
          /\ convertStreamChunkToGeminiResponse(new.received[Len(new.received)]).threw
    /\ \/ new.received = old.received /\ new.yielded = old.yielded
       \/ /\ old.state = "streaming"
          /\ Len(new.received) = Len(old.received) + 1
          /\ SubSeq(new.received, 1, Len(old.received)) = old.received
          /\ SubSeq(new.yielded, 1, Len(old.yielded)) = old.yielded
    /\ old.state \in {"ended", "failed"} => new = old

\* C4 amended: the sequence yields one delta per chunk, in chunk order, the
\* k-th delta the conversion of the k-th chunk alone, up to the first chunk
\* whose conversion throws (a tool-call delta with a name and a non-empty
\* argument fragment that is not valid JSON); at that chunk it yields
\* nothing and ends with the parse error.  Once the stream has ended, been
\* aborted or closed, or the sequence has thrown, it yields nothing more.
C4_Stream == [][\A c \in CallIds : C4_Step(calls[c], calls'[c])]_vars

C4_Witness ==
  \E c \in CallIds :
    /\ calls[c].kind = "generateContentStream" /\ calls[c].state = "ended"
    /\ Len(calls[c].received) = 2 /\ Len(calls[c].yielded) = 2
    /\ calls[c].yielded[1].text = <<"H", "i">>
    /\ calls[c].yielded[2].text = <<>> /\ Len(calls[c].yielded[2].parts) = 1

\* The function tool calls of a completion's first choice.
FirstChoiceFunctionCalls(completion) ==
  IF completion.choices = <<>> THEN <<>>
  ELSE FunctionCallsOf(completion.choices[1])

\* C6 as stated: a generateContent call whose completion's first choice has
\* a function tool call with an argument string that is not valid JSON is
\* rejected and gives no response.
C6_AsStated ==
  \A c \in CallIds :
    (/\ calls[c].kind = "generateContent" /\ calls[c].reply = "completion"
     /\ \E k \in 1..Len(FirstChoiceFunctionCalls(calls[c].completion)) :
          LET arguments == FirstChoiceFunctionCalls(calls[c].completion)[k]
                             .function.arguments
          IN arguments.def /\ ~JSONparse(arguments.s).ok)
    => calls[c].state = "rejected" /\ calls[c].response = NoResponse

\* C6 amended: the same for an argument string that is not empty and is not
\* valid JSON; an empty argument string is read as {} and does not reject
\* the call.
C6_MalformedArguments ==
  \A c \in CallIds :
    (/\ calls[c].kind = "generateContent" /\ calls[c].reply = "completion"
     /\ \E k \in 1..Len(FirstChoiceFunctionCalls(calls[c].completion)) :
          LET arguments == FirstChoiceFunctionCalls(calls[c].completion)[k]
                             .function.arguments
          IN arguments.def /\ arguments.s # <<>> /\ ~JSONparse(arguments.s).ok)
    => calls[c].state = "rejected" /\ calls[c].response = NoResponse

C6_Witness ==
  \E c \in CallIds :
    /\ calls[c].kind = "generateContent" /\ calls[c].state = "rejected"
    /\ calls[c].error = "SyntaxError"
    /\ calls[c].completion.choices[1].content = Some(<<"H", "i">>)
    /\ Len(calls[c].completion.choices[1].tool_calls.calls) = 2
    /\ calls[c].completion.choices[1].tool_calls.calls[1].function.name = Some(<<"f">>)

\* What the transport gave a call, and what the call gave its caller.
TransportOf(call) ==
  <<call.reply, call.completion, call.data, call.received, call.upstream>>
OutcomeOf(call) ==
  <<call.state, call.error, call.response, call.totalTokens, call.values,
    call.yielded>>

\* C5: in every interleaving of the four calls, failed ones included, the
\* generator's fields stay as constructed, and what a call sends and gives
\* back is determined by its own request, the random values it drew and
\* what the transport answered to it: two calls that agree on these agree
\* on what they sent and on their outcome, whatever the other calls did.
C5_Isolation ==
  /\ generator = Constructed
  /\ \A c, d \in CallIds :
       (/\ calls[c].kind = calls[d].kind
        /\ calls[c].request = calls[d].request
        /\ calls[c].rnd = calls[d].rnd
        /\ TransportOf(calls[c]) = TransportOf(calls[d]))
       => /\ calls[c].wire = calls[d].wire
          /\ OutcomeOf(calls[c]) = OutcomeOf(calls[d])

C5_Witness ==
  \E c, d \in CallIds :
    /\ c # d
    /\ calls[c].kind = "generateContent" /\ calls[d].kind = "generateContent"
    /\ calls[c].request = calls[d].request
    /\ calls[c].state = "rejected" /\ calls[c].error = "SyntaxError"
    /\ calls[d].state = "resolved" /\ calls[d].response.text = <<"H", "i">>

(***************************************************************************)
(* Claims on the part encoder.                                             *)
(***************************************************************************)
\* A Text part: a string, or an object with a text attribute.  An
\* InlineData part: an object without a text attribute whose inlineData is
\* there.
IsText(part) == part.ty = "string" \/ (part.ty = "object" /\ "text" \in part.keys)
IsInlineData(part) ==
  /\ part.ty = "object" /\ "text" \notin part.keys
  /\ "inlineData" \in part.keys /\ part.inlineData.truthy

\* The blocks C11 gives a turn's parts: a text block per Text part, a
\* data-URI image block per InlineData part, in part order, nothing for any
\* other part.
RECURSIVE ClaimedBlocks(_)
ClaimedBlocks(parts) ==
  IF parts = <<>> THEN <<>>
  ELSE LET part == parts[1]
           block ==
             IF IsText(part)
             THEN <<[type |-> "text", text |-> PartText(part), url |-> <<>>]>>
             ELSE IF IsInlineData(part)
             THEN <<[type |-> "image_url", text |-> <<>>,
                     url |-> <<"data:">> \o part.inlineData.mimeType.s
                             \o <<";base64,">> \o part.inlineData.data.s]>>
             ELSE <<>>
       IN block \o ClaimedBlocks(Tail(parts))

\* C11: the message of every user turn has as content the blocks of the
\* turn's parts (unrecognized parts dropped, Text parts as text blocks,
\* InlineData parts as data-URI image blocks, in part order), collapsed to
\* the newline-join of the texts exactly when every block is a text block;
\* so an all-text turn's content is its texts joined by newline.
C11_PartEncoder ==
  tphase = "translated" =>
    \A i \in 1..Len(turns) :
      HasRole(turns[i], "user") =>
        LET m == messages[ClaimedTotal(SubSeq(turns, 1, i - 1)) + 1]
            blocks == ClaimedBlocks(PartsOf(turns[i]))
            texts == [k \in 1..Len(blocks) |-> blocks[k].text]
        IN /\ m.role = "user"
           /\ m.content.kind \in {"string", "blocks"}
           /\ m.content.kind = "string" <=>
                \A k \in 1..Len(blocks) : blocks[k].type = "text"
           /\ m.content.kind = "string" => m.content.str = NewlineJoined(texts)
           /\ m.content.kind = "blocks" => m.content.blocks = blocks
           /\ (\A k \in 1..Len(PartsOf(turns[i])) : IsText(PartsOf(turns[i])[k]))
                => m.content.str =
                     NewlineJoined([k \in 1..Len(PartsOf(turns[i])) |->
                                      PartText(PartsOf(turns[i])[k])])

C11_Witness ==
  /\ tphase = "translated"
  /\ Len(turns) = 1 /\ HasRole(turns[1], "user") /\ Len(turns[1].parts) = 2
  /\ turns[1].parts[1] = NullValue
  /\ Len(messages) = 1 /\ messages[1].content.kind = "blocks"
  /\ Len(messages[1].content.blocks) = 1
  /\ messages[1].content.blocks[1].url = <<"data:", "m", ";base64,", "d">>

(***************************************************************************)
(* Claims on the tool-call deltas of a stream chunk.                       *)
(***************************************************************************)
\* The tool-call deltas of a chunk's first choice.
DeltaCalls(chunk) ==
  IF chunk.choices = <<>> \/ ~chunk.choices[1].tool_calls.def THEN <<>>
  ELSE chunk.choices[1].tool_calls.calls

\* A tool-call delta carries a non-empty function name.
Named(toolCall) ==
  /\ toolCall.function.def /\ toolCall.function.name.def
  /\ toolCall.function.name.s # <<>>
\* Its argument fragment is empty or absent.
EmptyFragment(toolCall) ==
  \/ ~toolCall.function.def
  \/ ~toolCall.function.arguments.def
  \/ toolCall.function.arguments.s = <<>>
\* It is named and its argument fragment is there and is not valid JSON.
BadFragment(toolCall) ==
  /\ Named(toolCall) /\ ~EmptyFragment(toolCall)
  /\ ~JSONparse(toolCall.function.arguments.s).ok

\* The FunctionCall parts of a response, in order.
FunctionCallPartsOf(response) ==
  SelectSeq(response.parts,
            LAMBDA p : "functionCall" \in p.keys /\ p.functionCall.truthy)

\* C12 as stated: for every tool-call delta of a chunk whose argument
\* fragment is empty or absent, translating the chunk does not fail and the
\* delta has a FunctionCall part for that tool-call delta with args {}.
C12_AsStated ==
  (aphase = "assembled" /\ wireIn.kind = "chunk") =>
    \A k \in 1..Len(DeltaCalls(wireIn.chunk)) :
      LET toolCall == DeltaCalls(wireIn.chunk)[k] IN
      EmptyFragment(toolCall) =>
        /\ ~assembled.threw
        /\ \E j \in 1..Len(FunctionCallPartsOf(assembled.response)) :
             LET fc == FunctionCallPartsOf(assembled.response)[j].functionCall
             IN /\ toolCall.function.def /\ fc.name = toolCall.function.name
                /\ fc.args = JObj(<<>>)

\* C12 amended: translating a chunk fails exactly when one of its named
\* tool-call deltas carries a non-empty argument fragment that is not valid
\* JSON, so never on account of an empty or absent fragment; when it does
\* not fail, the delta has one FunctionCall part per named tool-call delta,
\* in delta order, and the part of a named tool-call delta whose fragment
\* is empty or absent has args {}.  A tool-call delta without a name gives
\* no part.
C12_EmptyFragments ==
  (aphase = "assembled" /\ wireIn.kind = "chunk") =>
    LET deltas == DeltaCalls(wireIn.chunk)
        named == SelectSeq(deltas, Named)
        made == FunctionCallPartsOf(assembled.response)
    IN /\ assembled.threw <=> \E k \in 1..Len(deltas) : BadFragment(deltas[k])
       /\ ~assembled.threw =>
            /\ Len(made) = Len(named)
            /\ \A k \in 1..Len(named) :
                 /\ made[k].functionCall.name = named[k].function.name
                 /\ EmptyFragment(named[k]) =>
                      made[k].functionCall.args = JObj(<<>>)

C12_Witness ==
  /\ aphase = "assembled" /\ wireIn.kind = "chunk" /\ ~assembled.threw
  /\ Len(DeltaCalls(wireIn.chunk)) = 2
  /\ DeltaCalls(wireIn.chunk)[1].function.arguments = Some(<<>>)
  /\ Named(DeltaCalls(wireIn.chunk)[1])
  /\ DeltaCalls(wireIn.chunk)[2].function.arguments = NoStr
  /\ Named(DeltaCalls(wireIn.chunk)[2])
  /\ Len(FunctionCallPartsOf(assembled.response)) = 2
  /\ FunctionCallPartsOf(assembled.response)[1].functionCall.args = JObj(<<>>)
  /\ FunctionCallPartsOf(assembled.response)[2].functionCall.args = JObj(<<>>)

====
